---- MODULE Spec2Model ----
(***************************************************************************)
(* AutoBatchTask (production/luigihacks/autobatch.py): prepare, submit,    *)
(* monitor and combine AWS batch jobs as one Luigi task.                   *)
(*                                                                         *)
(* The model follows run -> execute -> _monitor_batch_jobs -> combine,     *)
(* one action per loop iteration or call, with the batch backend           *)
(* (batchclient.BatchClient) and the wall clock as the environment.        *)
(***************************************************************************)
EXTENDS Integers, Sequences, FiniteSets, TLC

\* ------------------------------------------------------------------ bounds
\* Longest descriptor list prepare() returns.
MaxParams == 3
\* Most descriptors of that list that are not done yet (jobs a run can submit).
MaxJobs == 2
\* The clock runs over 0..MaxTime; the configured timeout is at most MaxTime.
MaxTime == 2
\* Largest tally (sum of the stats counts) the breaker is tabulated for.
MaxTotal == 20

\* ------------------------------------------------- binary64 (Python float)
\* success_rate is a luigi FloatParameter and stats["FAILED"] / total is a
\* true division: both are IEEE-754 binary64 values.  A value in [0, 1] is
\* kept exactly, as its integer part and its first FixLen binary digits.
\* Every p/q below has q <= 100, so its first significant digit is among the
\* first 7, the 53 digits a float keeps end before digit 60, and a nonzero
\* remainder shows a 1 within the 7 digits after any position: FixLen
\* digits decide every rounding here exactly.
FixLen == 80
\* Significant binary digits of a binary64.
Mantissa == 53

Bit == {0, 1}

\* (n * 2^e) modulo d for e < FixLen, in steps that keep every product small.
RemAt(n, d, e) ==
    LET s1 == IF e >= 20 THEN (n * 2^20) % d ELSE n
        s2 == IF e >= 40 THEN (s1 * 2^20) % d ELSE s1
        s3 == IF e >= 60 THEN (s2 * 2^20) % d ELSE s2
    IN (s3 * 2^(e % 20)) % d

\* Binary digit j of n/d, for 0 <= n < d: long division, one digit per step.
DivBit(n, d, j) == IF 2 * RemAt(n, d, j - 1) >= d THEN 1 ELSE 0

FixZero == [int |-> 0, bits |-> [j \in 1..FixLen |-> 0]]
FixOne == [int |-> 1, bits |-> [j \in 1..FixLen |-> 0]]

\* n/d, 0 <= n <= d, d > 0, cut after FixLen digits.
FixRatio(n, d) ==
    IF n = d THEN FixOne ELSE [int |-> 0, bits |-> [j \in 1..FixLen |-> DivBit(n, d, j)]]

Ones(b) == {j \in 1..FixLen : b[j] = 1}
SetMin(S) == CHOOSE x \in S : \A y \in S : x <= y
SetMax(S) == CHOOSE x \in S : \A y \in S : x >= y

\* x plus one unit in digit position p (the carry may reach the integer part).
FixIncrement(x, p) ==
    LET zeros == {j \in 1..p : x.bits[j] = 0}
    IN IF zeros = {}
       THEN [int |-> x.int + 1, bits |-> [j \in 1..FixLen |-> IF j <= p THEN 0 ELSE x.bits[j]]]
       ELSE LET z == SetMax(zeros)
            IN [int |-> x.int,
                bits |-> [j \in 1..FixLen |->
                            IF j < z THEN x.bits[j]
                            ELSE IF j = z THEN 1
                            ELSE IF j <= p THEN 0 ELSE x.bits[j]]]

\* Round to nearest, ties to even, keeping Mantissa significant digits.
RoundBinary64(x) ==
    IF x.int = 1 \/ Ones(x.bits) = {} THEN x
    ELSE LET last == SetMin(Ones(x.bits)) + Mantissa - 1
         IN IF last >= FixLen THEN x
            ELSE LET cut == [int |-> 0,
                             bits |-> [j \in 1..FixLen |-> IF j <= last THEN x.bits[j] ELSE 0]]
                     half == x.bits[last + 1] = 1
                     sticky == \E j \in (last + 2)..FixLen : x.bits[j] = 1
                     odd == x.bits[last] = 1
                 IN IF half /\ (sticky \/ odd) THEN FixIncrement(cut, last) ELSE cut

\* float(n) / float(d) and the float literal n/d: the correctly rounded quotient.
Float(n, d) == RoundBinary64(FixRatio(n, d))

\* 1 - x for a float x in [0, 1]: the exact difference, then rounded.
FloatOneMinus(x) ==
    IF x.int = 1 THEN FixZero
    ELSE IF Ones(x.bits) = {} THEN FixOne
    ELSE LET low == SetMax(Ones(x.bits))
         IN RoundBinary64([int |-> 0,
                           bits |-> [j \in 1..FixLen |->
                                       IF j < low THEN 1 - x.bits[j] ELSE x.bits[j]]])

\* x <= y on floats.
FloatLeq(x, y) ==
    \/ x.int < y.int
    \/ /\ x.int = y.int
       /\ \/ x.bits = y.bits
          \/ LET d == SetMin({j \in 1..FixLen : x.bits[j] # y.bits[j]})
             IN x.bits[d] < y.bits[d]


\* ------------------------------------------------------------ configuration
\* max_runs defaults to None (line 86): encoded as a value no cap can take.
None == -1
\* success_rate values of the runs, in percent (0.5 and the default 0.95).
SuccessRates == {50, 95}
\* Statuses get_job_status reports.  PENDING stands for every status outside
\* SUBMITTED, RUNNING, SUCCEEDED and FAILED (RUNNABLE, STARTING, ...).
Status == {"SUBMITTED", "PENDING", "RUNNING", "SUCCEEDED", "FAILED"}
Outcomes == {"RUNNING", "COMPLETED", "DEADLINE_EXCEEDED", "FAILURE_THRESHOLD_BREACHED",
             "UNEXPLAINED_JOBS", "SUBMISSION_ERROR", "STATUS_QUERY_ERROR",
             "ENVIRONMENT_ERROR"}

\* All descriptor lists prepare() may return: only the done field is read.
RECURSIVE SeqsUpTo(_, _)
SeqsUpTo(S, n) ==
    IF n = 0 THEN {<<>>}
    ELSE LET shorter == SeqsUpTo(S, n - 1)
         IN shorter \cup {Append(q, x) : q \in {r \in shorter : Len(r) = n - 1}, x \in S}

Range(q) == {q[j] : j \in 1..Len(q)}
Min(a, b) == IF a <= b THEN a ELSE b

VARIABLES
    \* parameters of the task and the worker configuration
    prepared,        \* what prepare() returns: the done flag of each descriptor
    test,            \* AutoBatchTask.test
    max_runs,        \* AutoBatchTask.max_runs (None or a number)
    success_rate,    \* AutoBatchTask.success_rate, in percent
    timeout,         \* int(_config["timeout"])
    poll_time,       \* AutoBatchTask.poll_time
    \* the program
    pc,              \* where run() is
    TIMEOUT,         \* self.TIMEOUT
    job_params,      \* run's job_params (after the test cut)
    i,               \* execute: the enumerate index
    job_ids,         \* execute: job_ids
    done_jobs,       \* _monitor_batch_jobs: done_jobs
    stats,           \* _monitor_batch_jobs: stats (a missing key counts 0)
    k,               \* _monitor_batch_jobs: position of the for loops in job_ids
    unexplained_jobs,\* _monitor_batch_jobs: unexplained_jobs
    outcome,         \* how run() ended
    \* the environment
    now,             \* time.time()
    status,          \* the backend's status of each submitted job
    \* what the run did (observation only; nothing reads these back)
    job_desc,        \* for each handle of job_ids, the index of its descriptor
    submits,         \* descriptor indices submit_job was called for, in order
    hard_calls,      \* job_ids of each hard_terminate call, in order
    single_calls,    \* handles terminate_job was called for
    combine_calls,   \* arguments of each combine call, in order
    n_queries,       \* get_job_status calls so far
    cycle_queries,   \* handles queried since the current cycle began, in order
    n_sleeps,        \* time.sleep calls so far
    hist             \* backend history: "clean", "late" or "dirty"

config == <<prepared, test, max_runs, success_rate, timeout, poll_time>>
program == <<pc, TIMEOUT, job_params, i, job_ids, done_jobs, stats, k,
             unexplained_jobs, outcome>>
environment == <<now, status, hist>>
observed == <<job_desc, submits, hard_calls, single_calls, combine_calls,
              n_queries, cycle_queries, n_sleeps>>
vars == <<config, program, environment, observed>>

EmptyStats == [SUCCEEDED |-> 0, FAILED |-> 0, RUNNING |-> 0]

Init ==
    /\ prepared \in {q \in SeqsUpTo(BOOLEAN, MaxParams) :
                        Cardinality({j \in 1..Len(q) : ~q[j]}) <= MaxJobs}
    /\ test \in BOOLEAN
    /\ max_runs \in {None} \cup (0..MaxParams)
    /\ success_rate \in SuccessRates
    /\ timeout \in {0, MaxTime}
    /\ poll_time = 1
    /\ pc = "run"
    /\ TIMEOUT = 0
    /\ job_params = <<>>
    /\ i = 0
    /\ job_ids = <<>>
    /\ done_jobs = {}
    /\ stats = EmptyStats
    /\ k = 1
    /\ unexplained_jobs = FALSE
    /\ outcome = "RUNNING"
    /\ now = 0
    /\ status = <<>>
    /\ hist = "clean"
    /\ job_desc = <<>>
    /\ submits = <<>>
    /\ hard_calls = <<>>
    /\ single_calls = {}
    /\ combine_calls = <<>>
    /\ n_queries = 0
    /\ cycle_queries = <<>>
    /\ n_sleeps = 0


\* ------------------------------------------------------------------- helpers
Running == pc \notin {"done", "failed"}

\* Mutant of TestCut: the list is never cut.
TestCutNone(params) == params

\* run, lines 107-109: under test, keep the first two descriptors.
TestCut(params) ==
    IF test /\ Len(params) > 2 THEN SubSeq(params, 1, 2) ELSE params

\* Mutant of TimeoutBreached: the deadline itself still passes the check.
TimeoutBreachedLate == now > TIMEOUT

\* Mutant of TimeoutBreached: _assert_timeout always returns.
TimeoutNeverBreached == FALSE

\* _assert_timeout, line 274: "if time.time() < self.TIMEOUT: return".
TimeoutBreached == ~(now < TIMEOUT)

\* Mutant of Done: the done field is ignored.
DoneIgnored(idx) == FALSE

\* execute, line 183: params["done"] of the descriptor at enumerate index idx.
Done(idx) == job_params[idx + 1]

\* execute, line 186: the enumerate index against max_runs.
MaxRunsReached == (max_runs # None) /\ (i >= max_runs)

\* _monitor_batch_jobs, line 219.
JobsLeft == Len(job_ids) - Cardinality(done_jobs) > 0

\* _monitor_batch_jobs, line 226: statuses the cycle tally counts.
Tallied(s) == s \in {"SUCCEEDED", "FAILED", "RUNNING"}

\* Mutant of Final: the last check accepts a RUNNING job.
FinalLax(s) == s \in {"SUCCEEDED", "FAILED", "RUNNING"}

\* _monitor_batch_jobs, line 246: statuses the last check accepts.
Final(s) == s \in {"SUCCEEDED", "FAILED"}

\* Mutant of DoneAfter: a RUNNING job is added to done_jobs too.
DoneAfterAlways(dj, id, s) == dj \cup {id}

\* Mutant of DoneAfter: a job seen RUNNING again is taken out of done_jobs.
DoneAfterForgets(dj, id, s) == IF s = "RUNNING" THEN dj \ {id} ELSE dj \cup {id}

\* lines 229-231: done_jobs after a tallied status s of job id.
DoneAfter(dj, id, s) == IF s = "RUNNING" THEN dj ELSE dj \cup {id}

\* stats[status] += 1
Count(st, s) == [st EXCEPT ![s] = @ + 1]

\* _assert_success, line 260.
Total(st) == st.SUCCEEDED + st.FAILED + st.RUNNING

\* Mutant of NonEmpty: _assert_success is called whatever the tally holds.
NonEmptyAlways(st) == TRUE

\* len(stats) > 0: stats has a key once a status has been counted under it.
NonEmpty(st) == \E s \in DOMAIN st : st[s] > 0

\* _assert_success, lines 261-262, on floats: NOT failure_rate <= 1 - success_rate.
RateExceeded(rate, failed, total) ==
    ~FloatLeq(Float(failed, total), FloatOneMinus(Float(rate, 100)))

\* The same comparison, worked out once for every rate and tally of the model.
AllRates == SuccessRates \cup {0, 75, 80, 90, 100}
Tallies == {c \in AllRates \X (0..MaxTotal) \X (1..MaxTotal) : c[2] <= c[3]}
ExceededTable ==
    UNION {IF RateExceeded(c[1], c[2], c[3]) THEN {c} ELSE {} : c \in Tallies}

\* Mutant of BreakerTrips: the rate is taken from the SUCCEEDED count.
BreakerTripsOnSucceeded(rate, st) == <<rate, st.SUCCEEDED, Total(st)>> \in ExceededTable

\* _assert_success: does it go on to hard_terminate?
BreakerTrips(rate, st) == <<rate, st.FAILED, Total(st)>> \in ExceededTable

\* ------------------------------------------------------------------ backend
\* BatchClient.hard_terminate(job_ids, reason): terminates every job of job_ids
\* and raises BatchJobException(reason), which nothing in run catches.
HardTerminate(how) ==
    /\ hard_calls' = Append(hard_calls, Range(job_ids))
    /\ outcome' = how
    /\ pc' = "failed"

\* A job's status changes in the backend.  Terminal statuses may be left too (a
\* backend that contradicts itself); hist remembers whether that, or a FAILED,
\* ever happened, and otherwise whether a job succeeded only after the deadline.
\* The run reads each status once per cycle and once in the last check, so a
\* change at any moment reads the same as one made between two cycles: the
\* changes are modelled there.
BackendStep ==
    /\ pc = "monitor"
    /\ \E h \in 1..Len(status), s \in Status \ {"SUBMITTED"} :
          /\ s # status[h]
          /\ status' = [status EXCEPT ![h] = s]
          /\ hist' = IF Final(status[h]) \/ s = "FAILED" \/ hist = "dirty" THEN "dirty"
                     ELSE IF (s = "SUCCEEDED" /\ TimeoutBreached) \/ hist = "late" THEN "late"
                     ELSE "clean"
    /\ UNCHANGED <<config, program, now, observed>>

\* The wall clock advances.  Only _assert_timeout reads it, at the head of a
\* submission or of a monitoring cycle: time that passes elsewhere is modelled
\* as passing just before the next read.
Tick ==
    /\ pc \in {"submit", "monitor"}
    /\ now < MaxTime
    /\ now' = now + 1
    /\ UNCHANGED <<config, program, status, hist, observed>>

\* ---------------------------------------------------------------------- run
\* run, lines 103-109: set the deadline, prepare the descriptors, cut under test.
RunPrepare ==
    /\ pc = "run"
    /\ TIMEOUT' = now + timeout
    /\ job_params' = TestCut(prepared)
    /\ pc' = "prepare_env"
    /\ UNCHANGED <<config, i, job_ids, done_jobs, stats, k, unexplained_jobs,
                   outcome, environment, observed>>

\* run, lines 113-116: nesta_prepare_batch succeeds.
RunPrepareEnv ==
    /\ pc = "prepare_env"
    /\ pc' = "execute"
    /\ UNCHANGED <<config, TIMEOUT, job_params, i, job_ids, done_jobs, stats, k,
                   unexplained_jobs, outcome, environment, observed>>

\* run, lines 117-119: nesta_prepare_batch fails, BatchJobException is raised.
RunPrepareEnvFails ==
    /\ pc = "prepare_env"
    /\ pc' = "failed"
    /\ outcome' = "ENVIRONMENT_ERROR"
    /\ UNCHANGED <<config, TIMEOUT, job_params, i, job_ids, done_jobs, stats, k,
                   unexplained_jobs, environment, observed>>

\* execute, lines 173-180: the AWS keys are read, job_ids = [].
ExecuteStart ==
    /\ pc = "execute"
    /\ job_ids' = <<>>
    /\ i' = 0
    /\ pc' = "submit"
    /\ UNCHANGED <<config, TIMEOUT, job_params, done_jobs, stats, k,
                   unexplained_jobs, outcome, environment, observed>>

\* execute, lines 173-176: command_line raises CalledProcessError, uncaught.
ExecuteKeysFail ==
    /\ pc = "execute"
    /\ pc' = "failed"
    /\ outcome' = "ENVIRONMENT_ERROR"
    /\ UNCHANGED <<config, TIMEOUT, job_params, i, job_ids, done_jobs, stats, k,
                   unexplained_jobs, environment, observed>>

\* ------------------------------------------------------------------ execute
InLoop == pc = "submit" /\ i < Len(job_params)

\* Mutant of SubmitTimeout: the run is ended without the hard_terminate call.
SubmitTimeoutNoKill ==
    /\ InLoop
    /\ TimeoutBreached
    /\ outcome' = "DEADLINE_EXCEEDED"
    /\ pc' = "failed"
    /\ UNCHANGED <<config, TIMEOUT, job_params, i, job_ids, done_jobs, stats, k,
                   unexplained_jobs, environment, observed>>

\* lines 181-182: the deadline has passed when an iteration begins.
SubmitTimeout ==
    /\ InLoop
    /\ TimeoutBreached
    /\ HardTerminate("DEADLINE_EXCEEDED")
    /\ UNCHANGED <<config, TIMEOUT, job_params, i, job_ids, done_jobs, stats, k,
                   unexplained_jobs, environment, job_desc, submits, single_calls,
                   combine_calls, n_queries, cycle_queries, n_sleeps>>

\* lines 183-184: a done descriptor is skipped.
SubmitSkipDone ==
    /\ InLoop
    /\ ~TimeoutBreached
    /\ Done(i)
    /\ i' = i + 1
    /\ UNCHANGED <<config, pc, TIMEOUT, job_params, job_ids, done_jobs, stats, k,
                   unexplained_jobs, outcome, environment, observed>>

\* lines 186-187: break out of the loop, on to _monitor_batch_jobs (line 208).
SubmitBreak ==
    /\ InLoop
    /\ ~TimeoutBreached
    /\ ~Done(i)
    /\ MaxRunsReached
    /\ pc' = "monitor"
    /\ done_jobs' = {}
    /\ UNCHANGED <<config, TIMEOUT, job_params, i, job_ids, stats, k,
                   unexplained_jobs, outcome, environment, observed>>

\* lines 188-206: submit_job returns a handle, which is appended to job_ids.
SubmitJob ==
    /\ InLoop
    /\ ~TimeoutBreached
    /\ ~Done(i)
    /\ ~MaxRunsReached
    /\ submits' = Append(submits, i)
    /\ job_ids' = Append(job_ids, Len(status) + 1)
    /\ job_desc' = Append(job_desc, i)
    /\ status' = Append(status, "SUBMITTED")
    /\ i' = i + 1
    /\ UNCHANGED <<config, pc, TIMEOUT, job_params, done_jobs, stats, k,
                   unexplained_jobs, outcome, now, hist, hard_calls, single_calls,
                   combine_calls, n_queries, cycle_queries, n_sleeps>>

\* Mutant of SubmitError: the exception is swallowed and the loop goes on.
SubmitErrorSwallowed ==
    /\ InLoop
    /\ ~TimeoutBreached
    /\ ~Done(i)
    /\ ~MaxRunsReached
    /\ submits' = Append(submits, i)
    /\ i' = i + 1
    /\ outcome' = "SUBMISSION_ERROR"
    /\ UNCHANGED <<config, pc, TIMEOUT, job_params, job_ids, done_jobs, stats, k,
                   unexplained_jobs, environment, job_desc, hard_calls, single_calls,
                   combine_calls, n_queries, cycle_queries, n_sleeps>>

\* lines 201-205: submit_job raises; execute catches nothing.
SubmitError ==
    /\ InLoop
    /\ ~TimeoutBreached
    /\ ~Done(i)
    /\ ~MaxRunsReached
    /\ submits' = Append(submits, i)
    /\ pc' = "failed"
    /\ outcome' = "SUBMISSION_ERROR"
    /\ UNCHANGED <<config, TIMEOUT, job_params, i, job_ids, done_jobs, stats, k,
                   unexplained_jobs, environment, job_desc, hard_calls, single_calls,
                   combine_calls, n_queries, cycle_queries, n_sleeps>>

\* line 208: the loop is exhausted, _monitor_batch_jobs is called (line 218).
SubmitEnd ==
    /\ pc = "submit"
    /\ i = Len(job_params)
    /\ pc' = "monitor"
    /\ done_jobs' = {}
    /\ UNCHANGED <<config, TIMEOUT, job_params, i, job_ids, stats, k,
                   unexplained_jobs, outcome, environment, observed>>


\* ------------------------------------------------------ _monitor_batch_jobs
\* _assert_success as called at lines 233-234 and 254-255: is the run killed?
AssertSuccessFails(st) == NonEmpty(st) /\ BreakerTrips(success_rate, st)

\* line 219 is false: leave the loop for the last check (lines 240-242).
MonitorExit ==
    /\ pc = "monitor"
    /\ ~JobsLeft
    /\ stats' = EmptyStats
    /\ unexplained_jobs' = FALSE
    /\ k' = 1
    /\ pc' = "last_check"
    /\ UNCHANGED <<config, TIMEOUT, job_params, i, job_ids, done_jobs, outcome,
                   environment, observed>>

\* lines 219-221: a cycle begins and finds the deadline passed.
MonitorTimeout ==
    /\ pc = "monitor"
    /\ JobsLeft
    /\ stats' = EmptyStats
    /\ cycle_queries' = <<>>
    /\ TimeoutBreached
    /\ HardTerminate("DEADLINE_EXCEEDED")
    /\ UNCHANGED <<config, TIMEOUT, job_params, i, job_ids, done_jobs, k,
                   unexplained_jobs, environment, job_desc, submits, single_calls,
                   combine_calls, n_queries, n_sleeps>>

\* Mutant of MonitorBegin: the cycle begins without the deadline check.
MonitorBeginUnchecked ==
    /\ pc = "monitor"
    /\ JobsLeft
    /\ stats' = EmptyStats
    /\ cycle_queries' = <<>>
    /\ k' = 1
    /\ pc' = "query"
    /\ UNCHANGED <<config, TIMEOUT, job_params, i, job_ids, done_jobs,
                   unexplained_jobs, outcome, environment, job_desc, submits,
                   hard_calls, single_calls, combine_calls, n_queries, n_sleeps>>

\* Mutant of MonitorBegin: the tally of the cycle before is kept.
MonitorBeginKeepsTally ==
    /\ pc = "monitor"
    /\ JobsLeft
    /\ cycle_queries' = <<>>
    /\ ~TimeoutBreached
    /\ k' = 1
    /\ pc' = "query"
    /\ UNCHANGED <<config, TIMEOUT, job_params, i, job_ids, done_jobs, stats,
                   unexplained_jobs, outcome, environment, job_desc, submits,
                   hard_calls, single_calls, combine_calls, n_queries, n_sleeps>>

\* lines 219-223: a cycle begins within the deadline.
MonitorBegin ==
    /\ pc = "monitor"
    /\ JobsLeft
    /\ stats' = EmptyStats
    /\ cycle_queries' = <<>>
    /\ ~TimeoutBreached
    /\ k' = 1
    /\ pc' = "query"
    /\ UNCHANGED <<config, TIMEOUT, job_params, i, job_ids, done_jobs,
                   unexplained_jobs, outcome, environment, job_desc, submits,
                   hard_calls, single_calls, combine_calls, n_queries, n_sleeps>>

\* Mutant of QueryStatus: a handle already in done_jobs is passed over.
QueryStatusSkipsDone ==
    /\ pc = "query"
    /\ k <= Len(job_ids)
    /\ LET id == job_ids[k]
           s == status[id]
       IN IF id \in done_jobs
          THEN UNCHANGED <<n_queries, cycle_queries, stats, done_jobs>>
          ELSE /\ n_queries' = n_queries + 1
               /\ cycle_queries' = Append(cycle_queries, id)
               /\ stats' = IF Tallied(s) THEN Count(stats, s) ELSE stats
               /\ done_jobs' = IF Tallied(s) THEN DoneAfter(done_jobs, id, s) ELSE done_jobs
    /\ k' = k + 1
    /\ UNCHANGED <<config, pc, TIMEOUT, job_params, i, job_ids, unexplained_jobs,
                   outcome, environment, job_desc, submits, hard_calls,
                   single_calls, combine_calls, n_sleeps>>

\* lines 223-231: one iteration of the for loop, get_job_status answers.
QueryStatus ==
    /\ pc = "query"
    /\ k <= Len(job_ids)
    /\ LET id == job_ids[k]
           s == status[id]
       IN /\ n_queries' = n_queries + 1
          /\ cycle_queries' = Append(cycle_queries, id)
          /\ stats' = IF Tallied(s) THEN Count(stats, s) ELSE stats
          /\ done_jobs' = IF Tallied(s) THEN DoneAfter(done_jobs, id, s) ELSE done_jobs
    /\ k' = k + 1
    /\ UNCHANGED <<config, pc, TIMEOUT, job_params, i, job_ids, unexplained_jobs,
                   outcome, environment, job_desc, submits, hard_calls,
                   single_calls, combine_calls, n_sleeps>>

\* line 224: get_job_status raises; _monitor_batch_jobs catches nothing.
QueryError ==
    /\ pc = "query"
    /\ k <= Len(job_ids)
    /\ n_queries' = n_queries + 1
    /\ cycle_queries' = Append(cycle_queries, job_ids[k])
    /\ pc' = "failed"
    /\ outcome' = "STATUS_QUERY_ERROR"
    /\ UNCHANGED <<config, TIMEOUT, job_params, i, job_ids, done_jobs, stats, k,
                   unexplained_jobs, environment, job_desc, submits, hard_calls,
                   single_calls, combine_calls, n_sleeps>>

\* lines 233-234: every id was queried and _assert_success kills the run.
CycleBreach ==
    /\ pc = "query"
    /\ k > Len(job_ids)
    /\ AssertSuccessFails(stats)
    /\ HardTerminate("FAILURE_THRESHOLD_BREACHED")
    /\ UNCHANGED <<config, TIMEOUT, job_params, i, job_ids, done_jobs, stats, k,
                   unexplained_jobs, environment, job_desc, submits, single_calls,
                   combine_calls, n_queries, cycle_queries, n_sleeps>>

\* lines 233-237: _assert_success returns (or is not called), then time.sleep.
CycleSleep ==
    /\ pc = "query"
    /\ k > Len(job_ids)
    /\ ~AssertSuccessFails(stats)
    /\ n_sleeps' = n_sleeps + 1
    /\ now' = Min(now + poll_time, MaxTime)
    /\ pc' = "monitor"
    /\ UNCHANGED <<config, TIMEOUT, job_params, i, job_ids, done_jobs, stats, k,
                   unexplained_jobs, outcome, status, hist, job_desc, submits,
                   hard_calls, single_calls, combine_calls, n_queries, cycle_queries>>

\* lines 243-250: one iteration of the last check, get_job_status answers.
LastQuery ==
    /\ pc = "last_check"
    /\ k <= Len(job_ids)
    /\ LET id == job_ids[k]
           s == status[id]
       IN /\ n_queries' = n_queries + 1
          /\ unexplained_jobs' = (unexplained_jobs \/ ~Final(s))
          /\ single_calls' = IF Final(s) THEN single_calls ELSE single_calls \cup {id}
          /\ stats' = IF Final(s) THEN Count(stats, s) ELSE stats
    /\ k' = k + 1
    /\ UNCHANGED <<config, pc, TIMEOUT, job_params, i, job_ids, done_jobs, outcome,
                   environment, job_desc, submits, hard_calls, combine_calls,
                   cycle_queries, n_sleeps>>

\* line 244: get_job_status raises in the last check.
LastQueryError ==
    /\ pc = "last_check"
    /\ k <= Len(job_ids)
    /\ n_queries' = n_queries + 1
    /\ pc' = "failed"
    /\ outcome' = "STATUS_QUERY_ERROR"
    /\ UNCHANGED <<config, TIMEOUT, job_params, i, job_ids, done_jobs, stats, k,
                   unexplained_jobs, environment, job_desc, submits, hard_calls,
                   single_calls, combine_calls, cycle_queries, n_sleeps>>

\* Mutant of LastUnexplained: the exception is not raised, execute returns.
LastUnexplainedReturns ==
    /\ pc = "last_check"
    /\ k > Len(job_ids)
    /\ unexplained_jobs
    /\ pc' = "combine"
    /\ outcome' = "UNEXPLAINED_JOBS"
    /\ UNCHANGED <<config, TIMEOUT, job_params, i, job_ids, done_jobs, stats, k,
                   unexplained_jobs, environment, observed>>

\* lines 252-253: a job was neither SUCCEEDED nor FAILED.
LastUnexplained ==
    /\ pc = "last_check"
    /\ k > Len(job_ids)
    /\ unexplained_jobs
    /\ pc' = "failed"
    /\ outcome' = "UNEXPLAINED_JOBS"
    /\ UNCHANGED <<config, TIMEOUT, job_params, i, job_ids, done_jobs, stats, k,
                   unexplained_jobs, environment, observed>>

\* Mutant of LastBreach: the last tally is not judged, execute returns.
LastBreachReturns ==
    /\ pc = "last_check"
    /\ k > Len(job_ids)
    /\ ~unexplained_jobs
    /\ AssertSuccessFails(stats)
    /\ pc' = "combine"
    /\ UNCHANGED <<config, TIMEOUT, job_params, i, job_ids, done_jobs, stats, k,
                   unexplained_jobs, outcome, environment, observed>>

\* lines 254-255: _assert_success kills the run over the last tally.
LastBreach ==
    /\ pc = "last_check"
    /\ k > Len(job_ids)
    /\ ~unexplained_jobs
    /\ AssertSuccessFails(stats)
    /\ HardTerminate("FAILURE_THRESHOLD_BREACHED")
    /\ UNCHANGED <<config, TIMEOUT, job_params, i, job_ids, done_jobs, stats, k,
                   unexplained_jobs, environment, job_desc, submits, single_calls,
                   combine_calls, n_queries, cycle_queries, n_sleeps>>

\* line 255 returns: execute returns to run (line 121).
LastReturn ==
    /\ pc = "last_check"
    /\ k > Len(job_ids)
    /\ ~unexplained_jobs
    /\ ~AssertSuccessFails(stats)
    /\ pc' = "combine"
    /\ UNCHANGED <<config, TIMEOUT, job_params, i, job_ids, done_jobs, stats, k,
                   unexplained_jobs, outcome, environment, observed>>

\* run, line 123: combine(job_params).
Combine ==
    /\ pc = "combine"
    /\ combine_calls' = Append(combine_calls, job_params)
    /\ pc' = "done"
    /\ outcome' = "COMPLETED"
    /\ UNCHANGED <<config, TIMEOUT, job_params, i, job_ids, done_jobs, stats, k,
                   unexplained_jobs, environment, job_desc, submits, hard_calls,
                   single_calls, n_queries, cycle_queries, n_sleeps>>

Next ==
    \/ RunPrepare \/ RunPrepareEnv \/ RunPrepareEnvFails
    \/ ExecuteStart \/ ExecuteKeysFail
    \/ SubmitTimeout \/ SubmitSkipDone \/ SubmitBreak \/ SubmitJob \/ SubmitError
    \/ SubmitEnd
    \/ MonitorExit \/ MonitorTimeout \/ MonitorBegin
    \/ QueryStatus \/ QueryError \/ CycleBreach \/ CycleSleep
    \/ LastQuery \/ LastQueryError \/ LastUnexplained \/ LastBreach \/ LastReturn
    \/ Combine
    \/ BackendStep \/ Tick

Spec == Init /\ [][Next]_vars

\* The steps of run() itself.  The interpreter keeps executing the statement it
\* stands at, and time.sleep returns: a step of the run that is possible is
\* eventually taken.  Nothing is assumed of the backend or of the clock beyond
\* the poll_time that each sleep takes.
ProgramStep ==
    \/ RunPrepare \/ RunPrepareEnv \/ RunPrepareEnvFails
    \/ ExecuteStart \/ ExecuteKeysFail
    \/ SubmitTimeout \/ SubmitSkipDone \/ SubmitBreak \/ SubmitJob \/ SubmitError
    \/ SubmitEnd
    \/ MonitorExit \/ MonitorTimeout \/ MonitorBegin
    \/ QueryStatus \/ QueryError \/ CycleBreach \/ CycleSleep
    \/ LastQuery \/ LastQueryError \/ LastUnexplained \/ LastBreach \/ LastReturn
    \/ Combine

LiveSpec == Init /\ [][Next]_vars /\ WF_vars(ProgramStep)

TypeOK ==
    /\ pc \in {"run", "prepare_env", "execute", "submit", "monitor", "query",
               "last_check", "combine", "done", "failed"}
    /\ outcome \in Outcomes
    /\ status \in Seq(Status)
    /\ done_jobs \subseteq Range(job_ids)
    /\ now \in 0..MaxTime
    /\ hist \in {"clean", "late", "dirty"}


\* ------------------------------------------------- the breaker on its own
\* A run that stands at line 233 of a cycle in which n jobs reported: ns of
\* them SUCCEEDED, nf FAILED and the rest RUNNING.
BreakerInit ==
    \E rate \in AllRates, n \in 1..MaxTotal :
    \E ns \in 0..n :
    \E nf \in 0..(n - ns) :
        /\ prepared = [j \in 1..n |-> FALSE]
        /\ test = FALSE
        /\ max_runs = None
        /\ success_rate = rate
        /\ timeout = MaxTime
        /\ poll_time = 1
        /\ pc = "query"
        /\ TIMEOUT = MaxTime
        /\ job_params = [j \in 1..n |-> FALSE]
        /\ i = n
        /\ job_ids = [j \in 1..n |-> j]
        /\ done_jobs = 1..(ns + nf)
        /\ stats = [SUCCEEDED |-> ns, FAILED |-> nf, RUNNING |-> n - ns - nf]
        /\ k = n + 1
        /\ unexplained_jobs = FALSE
        /\ outcome = "RUNNING"
        /\ now = 0
        /\ status = [j \in 1..n |-> IF j <= ns THEN "SUCCEEDED"
                                    ELSE IF j <= ns + nf THEN "FAILED" ELSE "RUNNING"]
        /\ hist = IF nf > 0 THEN "dirty" ELSE "clean"
        /\ job_desc = [j \in 1..n |-> j - 1]
        /\ submits = [j \in 1..n |-> j - 1]
        /\ hard_calls = <<>>
        /\ single_calls = {}
        /\ combine_calls = <<>>
        /\ n_queries = n
        /\ cycle_queries = [j \in 1..n |-> j]
        /\ n_sleeps = 0

BreakerNext == CycleBreach \/ CycleSleep

BreakerSpec == BreakerInit /\ [][BreakerNext]_vars

\* ------------------------------------------------------------------- claims
Ended == pc \in {"done", "failed"}
Handles == Range(job_ids)
NotDone(params) == {j \in 1..Len(params) : ~params[j]}
NoTerminate == hard_calls = <<>> /\ single_calls = {}
\* The submission loop was left by break or by exhaustion.
Monitoring == pc \in {"monitor", "query", "last_check", "combine", "done"}

\* C1: no descriptor whose done field is true is ever passed to submit_job, and
\* no handle of job_ids belongs to such a descriptor.
C1_DoneNeverSubmitted ==
    /\ \A j \in 1..Len(submits) : ~prepared[submits[j] + 1]
    /\ \A j \in 1..Len(job_desc) : ~prepared[job_desc[j] + 1]
    /\ Len(job_desc) = Len(job_ids)

\* C1 witness: a job was submitted for a descriptor that follows a done one.
C1_Witness ==
    \E j \in 1..Len(job_ids) : \E d \in 1..job_desc[j] : prepared[d]

\* C2 (as claimed): with max_runs = N below the number of descriptors, and no
\* deadline breach or submission error, exactly N jobs are submitted, done
\* descriptors not counted (all of the not-done ones when there are fewer than N).
C2_ExactlyMaxRunsSubmitted ==
    (Monitoring /\ max_runs # None /\ max_runs < Len(job_params))
        => Len(job_ids) = Min(max_runs, Cardinality(NotDone(job_params)))


C4_TripsIffRateExceeded ==
    LET exceeded == stats.FAILED * 100 > (100 - success_rate) * Total(stats)
    IN /\ pc = "failed" => (exceeded /\ hard_calls = <<Handles>>)
       /\ pc = "monitor" => (~exceeded /\ hard_calls = <<>>)

\* C5: combine is called only by a run that ends COMPLETED, in which nothing was
\* terminated; a run that ended any other way has failed and never called it.
C5_CombineOnlyWhenCompleted ==
    /\ combine_calls # <<>> => (outcome = "COMPLETED" /\ pc = "done" /\ NoTerminate)
    /\ outcome \notin {"RUNNING", "COMPLETED"} => (pc = "failed" /\ combine_calls = <<>>)
    /\ (hard_calls # <<>> \/ unexplained_jobs) => pc # "done"

\* C5 witness: a run killed by the breaker after jobs were monitored.
C5_Witness ==
    /\ outcome = "FAILURE_THRESHOLD_BREACHED"
    /\ pc = "failed"
    /\ n_queries > 0


\* C6: a monitoring cycle makes its status queries only after its deadline
\* check has passed; a cycle that begins with the deadline reached terminates
\* all of job_ids and ends the run in DEADLINE_EXCEEDED, and no status query
\* or sleep is made in that cycle or after it.
C6_DeadlineBeforeQueries ==
    [][/\ (pc = "monitor" /\ pc' = "query") => (now < TIMEOUT /\ cycle_queries' = <<>>)
       /\ (pc = "query" /\ n_queries' # n_queries) => now < TIMEOUT
       /\ (pc = "monitor" /\ JobsLeft /\ now >= TIMEOUT /\ pc' # "monitor")
            => /\ pc' = "failed"
               /\ outcome' = "DEADLINE_EXCEEDED"
               /\ hard_calls' = <<Handles>>
               /\ cycle_queries' = <<>>
               /\ n_queries' = n_queries
               /\ n_sleeps' = n_sleeps
       /\ outcome = "DEADLINE_EXCEEDED"
            => (pc' = "failed" /\ n_queries' = n_queries /\ n_sleeps' = n_sleeps)
      ]_vars

\* C6 witness: the deadline was found reached by a cycle after the first one.
C6_Witness ==
    /\ outcome = "DEADLINE_EXCEEDED"
    /\ n_sleeps >= 1
    /\ cycle_queries = <<>>
    /\ hard_calls = <<Handles>>
    /\ Len(job_ids) >= 2

\* C7: submit_job is called only after the deadline check of its iteration has
\* passed; an iteration that finds the deadline reached calls hard_terminate
\* with exactly the handles submitted so far, and then no descriptor is
\* submitted and no status is queried.
C7_DeadlineBeforeSubmit ==
    [][/\ submits' # submits => now < TIMEOUT
       /\ (pc = "submit" /\ i < Len(job_params) /\ now >= TIMEOUT /\ program' # program)
            => /\ pc' = "failed"
               /\ outcome' = "DEADLINE_EXCEEDED"
               /\ hard_calls' = <<Handles>>
               /\ submits' = submits
               /\ job_ids' = job_ids
       /\ pc = "failed"
            => (pc' = "failed" /\ submits' = submits /\ n_queries' = n_queries)
      ]_vars

\* C7 witness: the deadline was found reached with one job submitted and a
\* descriptor still to submit.
C7_Witness ==
    /\ outcome = "DEADLINE_EXCEEDED"
    /\ n_queries = 0
    /\ Len(job_ids) = 1
    /\ hard_calls = <<{job_ids[1]}>>
    /\ i < Len(job_params)
    /\ ~job_params[i + 1]
    /\ max_runs = None

\* C8 (as claimed): a status query that fails does not end the run.
C8_QueryErrorSwallowed == outcome # "STATUS_QUERY_ERROR"

\* C9: each descriptor gets at most one submit_job call; a call that fails ends
\* the run at once: it is the last call, no status is queried and combine is
\* not called.
C9_SubmissionErrorAborts ==
    /\ \A a, b \in 1..Len(submits) : a < b => submits[a] < submits[b]
    /\ outcome = "SUBMISSION_ERROR"
         => /\ pc = "failed"
            /\ submits # <<>>
            /\ submits[Len(submits)] = i
            /\ Len(submits) = Len(job_ids) + 1
            /\ n_queries = 0
            /\ n_sleeps = 0
            /\ combine_calls = <<>>

\* C9 witness: the submission failed with a descriptor to submit after it.
C9_Witness ==
    /\ outcome = "SUBMISSION_ERROR"
    /\ max_runs = None
    /\ i + 1 < Len(job_params)
    /\ ~job_params[i + 2]

\* C10: done_jobs holds only handles of job_ids, and no step takes a handle
\* out of it.
C10_DoneJobsGrow ==
    /\ done_jobs \subseteq Handles
    /\ [][done_jobs \subseteq done_jobs' /\ done_jobs' \subseteq Range(job_ids')]_vars

\* C10 witness: a job of done_jobs was queried again and reported RUNNING.
C10_Witness ==
    /\ pc = "query"
    /\ \E h \in done_jobs : h \in Range(cycle_queries) /\ status[h] = "RUNNING"


\* C11 (as claimed): a cycle in which every job reports SUCCEEDED or FAILED,
\* with FAILED / (SUCCEEDED + FAILED) at most 1 - success_rate, does not end the
\* run as failed and no terminate call is made.
C11_TerminalWithinRateCompletes ==
    (/\ stats.RUNNING = 0
     /\ Total(stats) = Len(job_ids)
     /\ \A h \in Handles : status[h] \in {"SUCCEEDED", "FAILED"}
     /\ stats.FAILED * 100 <= (100 - success_rate) * (stats.SUCCEEDED + stats.FAILED))
        => (outcome = "RUNNING" /\ pc # "failed" /\ NoTerminate)


\* C12: every run eventually stops, as COMPLETED, DEADLINE_EXCEEDED,
\* FAILURE_THRESHOLD_BREACHED or with a raised error, whatever the backend
\* reports: the monitoring loop sleeps at most timeout / poll_time times.
C12_RunStops ==
    /\ [](n_sleeps * poll_time <= timeout)
    /\ [](Ended => outcome \in Outcomes \ {"RUNNING"})
    /\ [](pc = "done" => outcome = "COMPLETED")
    /\ <>Ended

\* C12 witness: jobs that never left SUBMITTED or RUNNING, polled until the
\* deadline ended the run.
C12_Witness ==
    /\ outcome = "DEADLINE_EXCEEDED"
    /\ timeout > 0
    /\ n_sleeps = timeout
    /\ Len(job_ids) >= 2
    /\ \A h \in Handles : status[h] \in {"SUBMITTED", "RUNNING"}


\* C13: when a run ends in DEADLINE_EXCEEDED or FAILURE_THRESHOLD_BREACHED, one
\* hard_terminate call has been made and it names every submitted job that is
\* not in a terminal status; after the call the run makes no submit_job call,
\* no status query and no sleep.
C13_LiveJobsTerminated ==
    /\ [](outcome \in {"DEADLINE_EXCEEDED", "FAILURE_THRESHOLD_BREACHED"}
            => /\ pc = "failed"
               /\ Len(hard_calls) = 1
               /\ \A h \in 1..Len(status) :
                     status[h] \notin {"SUCCEEDED", "FAILED"} => h \in hard_calls[1])
    /\ [][hard_calls # <<>>
            => /\ submits' = submits
               /\ n_queries' = n_queries
               /\ n_sleeps' = n_sleeps
               /\ hard_calls' = hard_calls]_vars

\* C13 witness: the breaker ended the run while one job was terminal and
\* another was still live.
C13_Witness ==
    /\ outcome = "FAILURE_THRESHOLD_BREACHED"
    /\ \E h \in Handles : status[h] = "FAILED"
    /\ \E h \in Handles : status[h] \in {"SUBMITTED", "PENDING", "RUNNING"}
    /\ hard_calls = <<Handles>>


\* C14: a status query of a monitoring cycle that reports SUCCEEDED or FAILED
\* adds the handle to done_jobs and 1 to that status in the tally; RUNNING adds
\* 1 to the tally only; any other status changes neither.  done_jobs changes in
\* no other way, and the loop is left for the last check only when every handle
\* of job_ids is in done_jobs.
C14_StatusClassified ==
    [][/\ (pc = "query" /\ pc' = "query" /\ n_queries' = n_queries + 1)
            => LET id == job_ids[k]
                   s == status[id]
               IN /\ s \in {"SUCCEEDED", "FAILED"}
                       => /\ done_jobs' = done_jobs \cup {id}
                          /\ stats' = [stats EXCEPT ![s] = @ + 1]
                  /\ s = "RUNNING"
                       => /\ done_jobs' = done_jobs
                          /\ stats' = [stats EXCEPT !.RUNNING = @ + 1]
                  /\ s \in {"SUBMITTED", "PENDING"}
                       => /\ done_jobs' = done_jobs
                          /\ stats' = stats
       /\ (done_jobs' # done_jobs /\ pc # "submit")
            => /\ pc = "query"
               /\ n_queries' = n_queries + 1
               /\ status[job_ids[k]] \in {"SUCCEEDED", "FAILED"}
       /\ (pc = "submit" /\ pc' = "monitor") => done_jobs' = {}
       /\ (pc = "monitor" /\ pc' = "last_check") => done_jobs = Handles
       /\ (pc = "monitor" /\ pc' = "query") => done_jobs # Handles
      ]_vars

\* C14 witness: a cycle has met a terminal status and an untallied one.
C14_Witness ==
    /\ pc = "query"
    /\ k > Len(job_ids)
    /\ \E h \in done_jobs : status[h] \in {"SUCCEEDED", "FAILED"}
    /\ \E h \in Handles : status[h] \in {"SUBMITTED", "PENDING"} /\ h \notin done_jobs
    /\ Total(stats) = 1


C16_TallyOfOneCycle ==
    /\ [](pc = "query"
            => /\ Cardinality(Range(cycle_queries)) = Len(cycle_queries)
               /\ \A s \in {"SUCCEEDED", "FAILED", "RUNNING"} :
                     stats[s] = Cardinality({h \in Range(cycle_queries) : status[h] = s}))
    /\ [][(pc = "monitor" /\ pc' = "query")
             => (stats' = [SUCCEEDED |-> 0, FAILED |-> 0, RUNNING |-> 0]
                 /\ cycle_queries' = <<>>)]_vars
    /\ [][(pc = "query" /\ (hard_calls' # hard_calls \/ n_sleeps' # n_sleeps))
             => (Range(cycle_queries) = Handles /\ stats' = stats)]_vars

\* C16 witness: a later cycle, complete, whose tally counts as RUNNING a job
\* that an earlier cycle had tallied as terminal.
C16_Witness ==
    /\ pc = "query"
    /\ n_sleeps >= 1
    /\ k > Len(job_ids)
    /\ Len(job_ids) = 2
    /\ stats.RUNNING = 2
    /\ done_jobs # {}


\* C17: once the monitoring loop has exited, the last check queries every
\* handle of job_ids once, in order; it calls terminate_job for exactly the
\* handles that report a status other than SUCCEEDED or FAILED; when all have
\* answered and there was such a handle the run raises (UNEXPLAINED_JOBS, no
\* combine, not COMPLETED), and a run that ends COMPLETED made no
\* terminate_job call.
C17_LastCheck ==
    /\ [](pc = "last_check"
            => /\ single_calls = {job_ids[m] : m \in {a \in 1..(k - 1) :
                                     status[job_ids[a]] \notin {"SUCCEEDED", "FAILED"}}}
               /\ unexplained_jobs = (single_calls # {}))
    /\ [](outcome = "UNEXPLAINED_JOBS"
            => /\ pc = "failed"
               /\ single_calls = {h \in Handles : status[h] \notin {"SUCCEEDED", "FAILED"}}
               /\ single_calls # {}
               /\ combine_calls = <<>>)
    /\ [](single_calls # {} => outcome \in {"RUNNING", "UNEXPLAINED_JOBS", "STATUS_QUERY_ERROR"})
    /\ [](outcome = "COMPLETED"
            => (single_calls = {} /\ \A h \in Handles : status[h] \in {"SUCCEEDED", "FAILED"}))
    /\ [][(pc = "monitor" /\ pc' = "last_check") => (k' = 1 /\ single_calls = {})]_vars
    /\ [][(pc = "last_check" /\ pc' = "last_check" /\ <<k, n_queries>>' # <<k, n_queries>>)
             => (k <= Len(job_ids) /\ k' = k + 1 /\ n_queries' = n_queries + 1)]_vars
    /\ [][(pc = "last_check" /\ pc' # "last_check" /\ n_queries' = n_queries)
             => /\ k = Len(job_ids) + 1
                /\ unexplained_jobs => outcome' = "UNEXPLAINED_JOBS"]_vars

\* C17 witness: the last check found one job of two outside SUCCEEDED and
\* FAILED, terminated it and the run raised.
C17_Witness ==
    /\ outcome = "UNEXPLAINED_JOBS"
    /\ Len(job_ids) = 2
    /\ Cardinality(single_calls) = 1
    /\ n_sleeps >= 1


====
